---------------------------- MODULE Spec2Model ----------------------------
(***************************************************************************)
(* Model of the RSS subscription / poll / dedup engine of                  *)
(* astrbot_plugin_myrss (src/main.py, src/formatters.py).                  *)
(*                                                                         *)
(* Text (titles, filter patterns) is a tuple of one-character strings, so  *)
(* that searching is computed rather than postulated.  A struct_time is a  *)
(* record [secs |-> n]; a missing value (Python None) is NoTime / NoFeed.  *)
(***************************************************************************)
EXTENDS Integers, Sequences, FiniteSets, Bags, TLC

\* ---- bounds of the model ----
MaxTs == 4
MaxEntries == 3
MaxCap == 3

\* subscription dicts alive, plus add commands awaiting their feed
MaxObjs == 2
\* the same, plus firings in flight
MaxLoad == 3

VARIABLES
    data,       \* self.data: channels in insertion order, subscribers as references
    heap,       \* the subscription dicts, by reference (a firing keeps its `sub`)
    disk,       \* what _save_data last wrote to DATA_FILE
    jobs,       \* the scheduler's jobs, a bag of [url, user]
    adds,       \* the add_sub coroutines awaiting _fetch_feed, a bag of their locals
    firings,    \* the _cron_callback coroutines in flight, a bag of their locals
    max_items,  \* self.max_items
    probe       \* input and output of a function applied on its own

vars == <<data, heap, disk, jobs, adds, firings, max_items, probe>>

\* ---- values ----
NoTime == [none |-> TRUE]
NoFeed == [none |-> TRUE]

StructTimes == [secs : 0..MaxTs]
ParsedTimes == StructTimes \cup {NoTime}

\* ==================== formatters.py ====================

\* time.mktime: seconds since the epoch of a struct_time
Mktime(st) == st.secs

\* time.strftime: the date text of a struct_time
Strftime(st) == <<"t", st.secs>>

\* Python's `a or b` on parsed times: a struct_time is always truthy
OrTime(a, b) == IF a # NoTime THEN a ELSE b

\* DefaultFormatter.parse_entry: the mutant compares nothing, it dates an
\* undated entry with 1 instead of 0
ParseEntryUndatedOne(entry) ==
    LET pub_parsed == OrTime(entry.published_parsed, entry.updated_parsed)
    IN  [ title |-> entry.title,
          link |-> entry.link,
          pub_date |-> IF pub_parsed # NoTime THEN Strftime(pub_parsed) ELSE <<>>,
          pub_date_timestamp |-> IF pub_parsed # NoTime THEN Mktime(pub_parsed) ELSE 1 ]

ParseEntry(entry) ==
    LET pub_parsed == OrTime(entry.published_parsed, entry.updated_parsed)
    IN  [ title |-> entry.title,
          link |-> entry.link,
          pub_date |-> IF pub_parsed # NoTime THEN Strftime(pub_parsed) ELSE <<>>,
          pub_date_timestamp |-> IF pub_parsed # NoTime THEN Mktime(pub_parsed) ELSE 0 ]

\* ==================== main.py: _poll_rss ====================

\* mutant loop: skips with < instead of <=
RECURSIVE PollLoopLt(_, _, _, _, _)
PollLoopLt(entries, i, items, limit, after_ts) ==
    IF i > Len(entries) THEN items
    ELSE LET item == ParseEntry(entries[i])
         IN  IF item.pub_date_timestamp < after_ts
             THEN PollLoopLt(entries, i + 1, items, limit, after_ts)
             ELSE LET items2 == Append(items, item)
                  IN  IF Len(items2) >= limit THEN items2
                      ELSE PollLoopLt(entries, i + 1, items2, limit, after_ts)

\* the for loop of _poll_rss from entry i on, with `items` collected so far
RECURSIVE PollLoop(_, _, _, _, _)
PollLoop(entries, i, items, limit, after_ts) ==
    IF i > Len(entries) THEN items
    ELSE LET item == ParseEntry(entries[i])
         IN  IF item.pub_date_timestamp <= after_ts
             THEN PollLoop(entries, i + 1, items, limit, after_ts)
             ELSE LET items2 == Append(items, item)
                  IN  IF Len(items2) >= limit THEN items2
                      ELSE PollLoop(entries, i + 1, items2, limit, after_ts)

\* _poll_rss on the outcome of _fetch_feed (NoFeed: the fetch returned None)
PollRss(feed, limit, after_ts) ==
    IF feed = NoFeed THEN <<>>
    ELSE PollLoop(feed.entries, 1, <<>>, limit, after_ts)

\* ==================== text ====================

LowerOf == [c \in {"A", "D", "I", "N", "S", "Y"} |->
              CASE c = "A" -> "a" [] c = "D" -> "d" [] c = "I" -> "i"
                [] c = "N" -> "n" [] c = "S" -> "s" [] c = "Y" -> "y"]

\* str.lower of one character
Lower(c) == IF c \in DOMAIN LowerOf THEN LowerOf[c] ELSE c

\* re.compile(pattern): of the patterns modelled (literal text and "("),
\* those with an unbalanced "(" raise re.error
ReCompiles(pattern) == \A i \in 1..Len(pattern) : pattern[i] # "("

\* regex.search(title) for a compiled literal pattern under re.IGNORECASE
ReSearch(pattern, title) ==
    \E off \in 0..(Len(title) - Len(pattern)) :
        \A i \in 1..Len(pattern) : Lower(title[off + i]) = Lower(pattern[i])

\* mutant: excludes the first matching item only
FilterItemsFirstMatch(items, pattern) ==
    IF pattern = <<>> THEN items
    ELSE IF ~ReCompiles(pattern) THEN items
    ELSE IF \A i \in 1..Len(items) : ~ReSearch(pattern, items[i].title) THEN items
    ELSE LET k == CHOOSE i \in 1..Len(items) :
                      /\ ReSearch(pattern, items[i].title)
                      /\ \A j \in 1..(i - 1) : ~ReSearch(pattern, items[j].title)
         IN  SubSeq(items, 1, k - 1) \o SubSeq(items, k + 1, Len(items))

\* _filter_items
FilterItems(items, pattern) ==
    IF pattern = <<>> THEN items
    ELSE IF ~ReCompiles(pattern) THEN items
    ELSE SelectSeq(items, LAMBDA item : ~ReSearch(pattern, item.title))

\* ==================== formatters.py: get_formatter ====================

\* the text s[from..] up to the first character of stops
RECURSIVE UpTo(_, _, _)
UpTo(s, from, stops) ==
    IF from > Len(s) \/ s[from] \in stops THEN <<>>
    ELSE <<s[from]>> \o UpTo(s, from + 1, stops)

Letters == {"a", "c", "d", "e", "g", "h", "i", "k", "m", "n", "o", "p", "r", "s", "t",
            "u", "v", "x", "y", "A", "I", "N", "S", "Y"}

\* urlparse(url).netloc: what follows "//" after the scheme, up to the path,
\* query or fragment
Netloc(url) ==
    LET scheme == UpTo(url, 1, {":"})
        has_scheme == /\ scheme # <<>> /\ Len(scheme) < Len(url)
                      /\ \A i \in 1..Len(scheme) : scheme[i] \in Letters
        rest == IF has_scheme THEN SubSeq(url, Len(scheme) + 2, Len(url)) ELSE url
    IN  IF Len(rest) >= 2 /\ rest[1] = "/" /\ rest[2] = "/"
        THEN UpTo(rest, 3, {"/", "?", "#"})
        ELSE <<>>

\* str.lower
LowerText(s) == [i \in 1..Len(s) |-> Lower(s[i])]

\* str.endswith
EndsWith(s, suffix) ==
    Len(s) >= Len(suffix) /\ SubSeq(s, Len(s) - Len(suffix) + 1, Len(s)) = suffix

\* FORMATTERS, in the order of the dict
FORMATTERS ==
    << [key |-> <<"n", "y", "a", "a", ".", "s", "i">>, cls |-> "NyaaFormatter"],
       [key |-> <<"s", "h", "a", "r", "e", ".", "d", "m", "h", "y", ".", "o", "r", "g">>, cls |-> "DmhyFormatter"],
       [key |-> <<"s", "h", "a", "r", "e", ".", "a", "c", "g", "n", "x", ".", "s", "e">>, cls |-> "AcgnxFormatter"],
       [key |-> <<"m", "i", "k", "a", "n", ".", "t", "a", "n", "g", "b", "a", "i", ".", "c", "c">>, cls |-> "MikanFormatter"] >>

\* get_formatter: the class of the formatter returned
GetFormatter(url) ==
    LET domain == LowerText(Netloc(url))
        hits == { i \in 1..Len(FORMATTERS) :
                    \/ domain = FORMATTERS[i].key
                    \/ EndsWith(domain, <<".">> \o FORMATTERS[i].key) }
    IN  IF hits = {} THEN "DefaultFormatter"
        ELSE FORMATTERS[CHOOSE i \in hits : \A j \in hits : i <= j].cls

\* the URLs get_formatter is applied to
UrlNyaa ==
    <<"h", "t", "t", "p", ":", "/", "/", "n", "y", "a", "a", ".", "s", "i", "/", "?", "p", "a", "g", "e", "=", "r", "s", "s">>
UrlNyaaSub ==
    <<"h", "t", "t", "p", ":", "/", "/", "s", "u", "b", ".", "n", "y", "a", "a", ".", "s", "i", "/", "r", "s", "s">>
UrlEvilNyaa ==
    <<"h", "t", "t", "p", ":", "/", "/", "e", "v", "i", "l", "n", "y", "a", "a", ".", "s", "i", "/", "r", "s", "s">>
UrlNyaaUpper ==
    <<"h", "t", "t", "p", ":", "/", "/", "N", "Y", "A", "A", ".", "S", "I", "/", "r", "s", "s">>
UrlNyaaPort ==
    <<"h", "t", "t", "p", ":", "/", "/", "n", "y", "a", "a", ".", "s", "i", ":", "8", "0", "8", "0", "/", "r", "s", "s">>
UrlNyaaUser ==
    <<"h", "t", "t", "p", ":", "/", "/", "m", "e", "@", "n", "y", "a", "a", ".", "s", "i", "/", "r", "s", "s">>
UrlNoScheme ==
    <<"n", "y", "a", "a", ".", "s", "i", "/", "r", "s", "s">>
UrlNyaaInPath ==
    <<"h", "t", "t", "p", ":", "/", "/", "a", ".", "o", "r", "g", "/", "n", "y", "a", "a", ".", "s", "i">>
UrlDmhy ==
    <<"h", "t", "t", "p", ":", "/", "/", "s", "h", "a", "r", "e", ".", "d", "m", "h", "y", ".", "o", "r", "g", "/", "r", "s", "s">>
UrlAcgnx ==
    <<"h", "t", "t", "p", ":", "/", "/", "s", "h", "a", "r", "e", ".", "a", "c", "g", "n", "x", ".", "s", "e", "/", "r", "s", "s">>
UrlMikan ==
    <<"h", "t", "t", "p", ":", "/", "/", "m", "i", "k", "a", "n", ".", "t", "a", "n", "g", "b", "a", "i", ".", "c", "c", "/", "r", "s", "s">>
UrlOther ==
    <<"h", "t", "t", "p", ":", "/", "/", "d", "m", "h", "y", ".", "o", "r", "g", "/", "r", "s", "s">>
FormatterUrls ==
    {UrlNyaa, UrlNyaaSub, UrlEvilNyaa, UrlNyaaUpper, UrlNyaaPort, UrlNyaaUser,
     UrlNoScheme, UrlNyaaInPath, UrlDmhy, UrlAcgnx, UrlMikan, UrlOther}

\* ==================== cron text ====================

\* str.split(sep) from position i on, `cur` being the part read so far
RECURSIVE SplitAt(_, _, _, _)
SplitAt(s, sep, i, cur) ==
    IF i > Len(s) THEN <<cur>>
    ELSE IF s[i] = sep THEN <<cur>> \o SplitAt(s, sep, i + 1, <<>>)
    ELSE SplitAt(s, sep, i + 1, Append(cur, s[i]))

\* str.split("."): every part, empty ones included
SplitDot(s) == SplitAt(s, ".", 1, <<>>)

\* str.split(): parts between runs of blanks, empty ones dropped
SplitWs(s) == SelectSeq(SplitAt(s, " ", 1, <<>>), LAMBDA part : part # <<>>)

\* " ".join(parts)
RECURSIVE JoinSp(_)
JoinSp(parts) ==
    IF parts = <<>> THEN <<>>
    ELSE IF Len(parts) = 1 THEN parts[1]
    ELSE parts[1] \o <<" ">> \o JoinSp(Tail(parts))

CronChars == {"0", "1", "3", "8", "*", "/"}

\* CronTrigger(minute=.., hour=.., ...) accepts a field: of the fields
\* modelled, the non-empty ones made of digits, "*" and "/"
CronFieldOk(f) == f # <<>> /\ \A i \in 1..Len(f) : f[i] \in CronChars

\* mutant: no check of the number of parts
DotToCronAnyLen(dot_expr) ==
    LET parts == SplitDot(dot_expr)
    IN  IF \E i \in 1..Len(parts) : ~CronFieldOk(parts[i])
        THEN [ok |-> FALSE, cron_expr |-> <<>>]
        ELSE [ok |-> TRUE, cron_expr |-> JoinSp(parts)]

\* _dot_to_cron: ok = FALSE stands for the ValueError
DotToCron(dot_expr) ==
    LET parts == SplitDot(dot_expr)
    IN  IF Len(parts) # 5 THEN [ok |-> FALSE, cron_expr |-> <<>>]
        ELSE IF \E i \in 1..5 : ~CronFieldOk(parts[i])
             THEN [ok |-> FALSE, cron_expr |-> <<>>]
             ELSE [ok |-> TRUE, cron_expr |-> JoinSp(parts)]

\* _validate_cron: TRUE when it returns the fields, FALSE when it raises
ValidateCron(cron_expr) ==
    LET parts == SplitWs(cron_expr)
    IN  Len(parts) = 5 /\ \A i \in 1..5 : CronFieldOk(parts[i])

\* config defaults read in __init__
default_cron == <<"0", ".", "1", "8", ".", "*", ".", "*", ".", "*">>
default_filter == <<>>

\* ==================== the inputs of the model ====================

Urls == {"u1", "u2"}
Users == {"a", "b"}

\* the (user, url) pairs of the add commands issued
AddRequests == {<<"a", "u1">>, <<"b", "u1">>, <<"a", "u2">>}

TNews == <<"N", "e", "w", "s">>
TAd == <<"A", "d">>

Cron3Fields == <<"*", ".", "*", ".", "*">>
Cron6Fields == <<"*", ".", "*", ".", "*", ".", "*", ".", "*", ".", "*">>

FilterAd == <<"a", "d">>
FilterBad == <<"(">>

\* the (cron, filter) arguments of the add commands issued
AddRules ==
    {<<<<>>, <<>>>>, <<<<>>, FilterAd>>, <<Cron3Fields, <<>>>>, <<Cron6Fields, <<>>>>,
     <<<<>>, FilterBad>>}

MkEntry(title, k, pub, upd) ==
    [title |-> title, link |-> <<"L", k>>, published_parsed |-> pub, updated_parsed |-> upd]

MkFeed(entries, bozo) ==
    [title |-> "chan", description |-> "desc", bozo |-> bozo, entries |-> entries]

EUndated == MkEntry(TNews, 0, NoTime, NoTime)
E1 == MkEntry(TNews, 1, [secs |-> 1], NoTime)
E3 == MkEntry(TAd, 3, [secs |-> 3], NoTime)
E4 == MkEntry(TNews, 4, [secs |-> 4], NoTime)

\* what feedparser.parse can return in the system: an empty feed, feeds
\* newest first, a feed oldest first, a feed led by an undated entry, and
\* text that is no feed (bozo, no entries)
SysFeeds ==
    { MkFeed(<<>>, FALSE),
      MkFeed(<<E4, E3, E1>>, FALSE),
      MkFeed(<<E1, E4>>, FALSE),
      MkFeed(<<EUndated, E3>>, FALSE),
      MkFeed(<<>>, TRUE) }

\* what _fetch_feed can return in the system: None or a parsed feed
SysFetches == SysFeeds \cup {NoFeed}

\* what time.time() can return
NowTimes == {2}

\* self.max_items as configured
SysCaps == {2}

\* ==================== the Store ====================

ObjIds == 1..MaxObjs
\* a heap cell that holds no dict
Free == [free |-> TRUE]

\* the locals of a firing that has not started
NewFiring(url, user) ==
    [pc |-> "start", url |-> url, user |-> user, sub |-> 0,
     after_ts |-> 0, items |-> <<>>, live |-> TRUE]

NoSubs == [u \in Users |-> 0]

\* position of url's channel in d, 0 when url is not a key of self.data
ChanIdx(d, url) ==
    IF \E i \in 1..Len(d) : d[i].url = url
    THEN CHOOSE i \in 1..Len(d) : d[i].url = url
    ELSE 0

\* self.data.get(url, {}).get("subscribers", {}).get(user): 0 stands for None
SubRef(d, url, user) ==
    IF ChanIdx(d, url) = 0 THEN 0 ELSE d[ChanIdx(d, url)].subscribers[user]

\* _get_user_subs: the urls of the channels the user subscribes to, in order
GetUserSubs(d, user) ==
    LET mine == SelectSeq(d, LAMBDA ch : ch.subscribers[user] # 0)
    IN  [i \in 1..Len(mine) |-> mine[i].url]

\* the dicts still referenced by the Store or by a suspended firing
Collect(h, d, fs) ==
    [o \in ObjIds |->
        IF \/ \E i \in 1..Len(d) : \E u \in Users : d[i].subscribers[u] = o
           \/ \E f \in BagToSet(fs) : f.sub = o
        THEN h[o] ELSE Free]

\* the content json.dump writes: references replaced by the dicts
Resolve(d, h) ==
    [i \in 1..Len(d) |->
        [url |-> d[i].url, info |-> d[i].info,
         subscribers |-> [u \in Users |->
            IF d[i].subscribers[u] = 0 THEN Free ELSE h[d[i].subscribers[u]]]]]

\* _save_data: the new content of DATA_FILE
SaveData(d, h) == Resolve(d, h)

\* the (url, user) pairs of the Store whose cron expression validates
SchedulablePairs(d, h) ==
    { p \in Urls \X Users :
        /\ SubRef(d, p[1], p[2]) # 0
        /\ ValidateCron(h[SubRef(d, p[1], p[2])].cron_expr) }


\* mutant: a refresh that adds every job twice
RefreshJobsTwice(d, h) ==
    LET once == SetToBag({ [url |-> p[1], user |-> p[2]] : p \in SchedulablePairs(d, h) })
    IN  once (+) once

\* _refresh_scheduler: the jobs after remove_all_jobs and the add_job loop
RefreshJobs(d, h) ==
    SetToBag({ [url |-> p[1], user |-> p[2]] : p \in SchedulablePairs(d, h) })

\* remove_all_jobs leaves the running firings without a job
Orphaned(fs) ==
    LET orphans == { [f EXCEPT !.live = FALSE] : f \in BagToSet(fs) }
    IN  [g \in orphans |-> CopiesIn(g, fs) + CopiesIn([g EXCEPT !.live = TRUE], fs)]

BagPut(B, f) == B (+) SetToBag({f})
BagDrop(B, f) == B (-) SetToBag({f})

FreeObjs(h) == { o \in ObjIds : h[o] = Free }

\* subscription dicts alive (in the Store, or held by a firing) plus the
\* dicts the suspended add commands are about to create
Objs == Cardinality(ObjIds \ FreeObjs(heap)) + BagCardinality(adds)

Load == Objs + BagCardinality(firings)
Min(S) == CHOOSE x \in S : \A y \in S : x <= y

\* maximum of a non-empty sequence of item timestamps
MaxItemTs(items) ==
    CHOOSE m \in { items[i].pub_date_timestamp : i \in 1..Len(items) } :
        \A i \in 1..Len(items) : items[i].pub_date_timestamp <= m

NoProbe == [op |-> "none"]

\* ==================== commands ====================
\* add_sub and _cron_callback are followed through their awaits; remove_sub
\* has none before its last assignment, and get_latest assigns nothing.

\* add_sub, lines 289-296: the watermark and link a new subscription starts with
SeedWatermark(feed, now) ==
    IF feed.entries # <<>>
    THEN LET entry == feed.entries[1]
             parsed_time == OrTime(entry.published_parsed, entry.updated_parsed)
         IN  [latest_ts |-> IF parsed_time # NoTime THEN Mktime(parsed_time) ELSE now,
              latest_link |-> entry.link]
    ELSE [latest_ts |-> now, latest_link |-> <<>>]

\* add_sub, lines 298-303: the Store with the new subscription at reference o
StoreAfterAdd(d, url, user, feed, o) ==
    LET d1 == IF ChanIdx(d, url) = 0
              THEN Append(d, [url |-> url,
                              info |-> [title |-> feed.title,
                                        description |-> feed.description],
                              subscribers |-> NoSubs])
              ELSE d
    IN  [d1 EXCEPT ![ChanIdx(d1, url)].subscribers[user] = o]

\* mutant: an edit that also resets the watermark
EditedSubReset(sub, cron_expr, filter_pattern) ==
    [sub EXCEPT !.cron_expr = cron_expr, !.filter = filter_pattern, !.last_update = 0]

\* add_sub, lines 265-266: the existing subscription dict with the new rules
EditedSub(sub, cron_expr, filter_pattern) ==
    [sub EXCEPT !.cron_expr = cron_expr, !.filter = filter_pattern]

\* add_sub, lines 244-284: what the command replies ("fetch": it goes on to
\* await _fetch_feed and replies after it, see AddFetchedReply)
AddSubReply(user, url, cron, filter_re) ==
    LET r == DotToCron(IF cron # <<>> THEN cron ELSE default_cron)
        filter_pattern == IF filter_re # <<>> THEN filter_re ELSE default_filter
    IN  IF ~r.ok THEN "cron_invalid"
        ELSE IF filter_pattern # <<>> /\ ~ReCompiles(filter_pattern) THEN "filter_invalid"
        ELSE IF SubRef(data, url, user) # 0 THEN "updated"
        ELSE "fetch"

\* add_sub, lines 278-312: what the command replies after _fetch_feed
AddFetchedReply(feed) ==
    IF feed = NoFeed THEN "unreachable"
    ELSE IF feed.bozo /\ feed.entries = <<>> THEN "not_a_feed"
    ELSE "subscribed"

\* add_sub, lines 242-277: rejects, or edits the rules of an existing
\* subscription, or goes on to await _fetch_feed
AddSub(user, url, cron, filter_re) ==
    LET r == DotToCron(IF cron # <<>> THEN cron ELSE default_cron)
        filter_pattern == IF filter_re # <<>> THEN filter_re ELSE default_filter
        existing == SubRef(data, url, user)
    IN  /\ UNCHANGED <<max_items, probe>>
        /\ IF ~r.ok \/ (filter_pattern # <<>> /\ ~ReCompiles(filter_pattern))
           THEN UNCHANGED <<data, heap, disk, jobs, adds, firings>>
           ELSE IF existing # 0
           THEN /\ heap' = [heap EXCEPT ![existing] =
                               EditedSub(@, r.cron_expr, filter_pattern)]
                /\ data' = data
                /\ disk' = SaveData(data, heap')
                /\ jobs' = RefreshJobs(data, heap')
                /\ firings' = Orphaned(firings)
                /\ UNCHANGED adds
           ELSE /\ Objs < MaxObjs
                /\ Load < MaxLoad
                /\ adds' = BagPut(adds, [url |-> url, user |-> user,
                                         cron_expr |-> r.cron_expr,
                                         filter_pattern |-> filter_pattern])
                /\ UNCHANGED <<data, heap, disk, jobs, firings>>


\* mutant: an add that rejects an unreachable feed only, and subscribes to
\* what is not a feed
AddFetchedAnyParse(a, feed, now) ==
    /\ BagIn(a, adds)
    /\ adds' = BagDrop(adds, a)
    /\ UNCHANGED <<max_items, probe>>
    /\ IF feed = NoFeed
       THEN UNCHANGED <<data, heap, disk, jobs, firings>>
       ELSE LET seed == SeedWatermark(feed, now)
                o == Min(FreeObjs(heap))
                h1 == [heap EXCEPT ![o] =
                         [cron_expr |-> a.cron_expr,
                          filter |-> a.filter_pattern,
                          last_update |-> seed.latest_ts,
                          latest_link |-> seed.latest_link]]
            IN  /\ data' = StoreAfterAdd(data, a.url, a.user, feed, o)
                /\ heap' = Collect(h1, data', firings)
                /\ disk' = SaveData(data', heap')
                /\ jobs' = RefreshJobs(data', heap')
                /\ firings' = Orphaned(firings)

\* add_sub, lines 277-305: from the return of _fetch_feed on (what it
\* returned and the time are inputs): rejects, or stores a new subscription
\* dict, over the one another add stored meanwhile if there is one
AddFetched(a, feed, now) ==
    /\ BagIn(a, adds)
    /\ adds' = BagDrop(adds, a)
    /\ UNCHANGED <<max_items, probe>>
    /\ IF feed = NoFeed \/ (feed.bozo /\ feed.entries = <<>>)
       THEN UNCHANGED <<data, heap, disk, jobs, firings>>
       ELSE LET seed == SeedWatermark(feed, now)
                o == Min(FreeObjs(heap))
                h1 == [heap EXCEPT ![o] =
                         [cron_expr |-> a.cron_expr,
                          filter |-> a.filter_pattern,
                          last_update |-> seed.latest_ts,
                          latest_link |-> seed.latest_link]]
            IN  /\ data' = StoreAfterAdd(data, a.url, a.user, feed, o)
                /\ heap' = Collect(h1, data', firings)
                /\ disk' = SaveData(data', heap')
                /\ jobs' = RefreshJobs(data', heap')
                /\ firings' = Orphaned(firings)

DelAt(q, i) == SubSeq(q, 1, i - 1) \o SubSeq(q, i + 1, Len(q))

\* mutant: leaves the channel in the Store when its last subscriber goes
StoreAfterRemoveKeepChan(d, url, user) ==
    [d EXCEPT ![ChanIdx(d, url)].subscribers[user] = 0]


\* mutant: deletes the channel with all its subscribers
StoreAfterRemoveChan(d, url, user) ==
    DelAt(d, ChanIdx(d, url))

\* remove_sub, lines 349-351: the Store without the subscription
StoreAfterRemove(d, url, user) ==
    LET i == ChanIdx(d, url)
        d1 == [d EXCEPT ![i].subscribers[user] = 0]
    IN  IF d1[i].subscribers = NoSubs THEN DelAt(d1, i) ELSE d1

\* remove_sub
RemoveSub(user, idx) ==
    LET subs == GetUserSubs(data, user)
    IN  /\ UNCHANGED <<adds, max_items, probe>>
        /\ IF idx < 0 \/ idx >= Len(subs)
           THEN UNCHANGED <<data, heap, disk, jobs, firings>>
           ELSE LET d2 == StoreAfterRemove(data, subs[idx + 1], user)
                IN  /\ data' = d2
                    /\ heap' = Collect(heap, d2, firings)
                    /\ disk' = SaveData(d2, heap')
                    /\ jobs' = RefreshJobs(d2, heap')
                    /\ firings' = Orphaned(firings)

\* get_latest: what the command replies when _fetch_feed returns feed
GetLatestReply(user, idx, feed) ==
    LET subs == GetUserSubs(data, user)
    IN  IF idx < 0 \/ idx >= Len(subs) THEN [kind |-> "invalid_index", items |-> <<>>]
        ELSE LET sub == heap[SubRef(data, subs[idx + 1], user)]
                 rss_items == FilterItems(PollRss(feed, max_items, 0), sub.filter)
             IN  IF rss_items = <<>> THEN [kind |-> "no_content", items |-> <<>>]
                 ELSE [kind |-> "items", items |-> rss_items]

\* mutant: a get that records what it pulled as delivered
GetLatestAdvances(user, idx) ==
    LET subs == GetUserSubs(data, user)
    IN  IF idx < 0 \/ idx >= Len(subs) THEN UNCHANGED vars
        ELSE /\ heap' = [heap EXCEPT ![SubRef(data, subs[idx + 1], user)].last_update = MaxTs]
             /\ UNCHANGED <<data, disk, jobs, adds, firings, max_items, probe>>

\* get_latest: polls with after_ts = 0, filters and replies; it assigns nothing
GetLatest(user, idx) ==
    UNCHANGED vars

\* ==================== scheduled firings ====================

Firings(url, user) ==
    { f \in BagToSet(firings) : f.url = url /\ f.user = user }

\* a job of the scheduler is due and no instance of it is running: the
\* scheduler creates the coroutine
Due(url, user) ==
    /\ BagIn([url |-> url, user |-> user], jobs)
    /\ \A f \in Firings(url, user) : ~f.live
    /\ firings' = BagPut(firings, NewFiring(url, user))
    /\ UNCHANGED <<data, heap, disk, jobs, adds, max_items, probe>>

\* the scheduler runs a due job: the coroutine is created, not yet started.
\* A job runs one instance at a time (add_job's default max_instances).
Trigger(url, user) ==
    /\ Load < MaxLoad
    /\ Due(url, user)

\* _cron_callback, lines 197-201: up to the await of _poll_rss
CronCallback(f) ==
    LET sub == SubRef(data, f.url, f.user)
    IN  /\ BagIn(f, firings) /\ f.pc = "start"
        /\ firings' = IF sub = 0 THEN BagDrop(firings, f)
                      ELSE BagPut(BagDrop(firings, f),
                                  [f EXCEPT !.pc = "poll", !.sub = sub,
                                            !.after_ts = heap[sub].last_update])
        /\ UNCHANGED <<data, heap, disk, jobs, adds, max_items, probe>>

\* mutant: an empty cycle resets the watermark of the firing's subscription
CronPolledResets(f, feed) ==
    LET rss_items == FilterItems(PollRss(feed, max_items, f.after_ts), heap[f.sub].filter)
        ended == BagDrop(firings, f)
    IN  /\ BagIn(f, firings) /\ f.pc = "poll"
        /\ UNCHANGED <<data, disk, jobs, adds, max_items, probe>>
        /\ IF rss_items = <<>>
           THEN /\ firings' = ended
                /\ heap' = Collect([heap EXCEPT ![f.sub].last_update = 0], data, ended)
           ELSE /\ firings' = BagPut(ended, [f EXCEPT !.pc = "send", !.items = rss_items,
                                                       !.after_ts = 0])
                /\ UNCHANGED heap

\* _cron_callback, lines 201-207: from the return of _poll_rss up to the
\* await of send_message, which is handed the items
CronPolled(f, feed) ==
    LET rss_items == FilterItems(PollRss(feed, max_items, f.after_ts), heap[f.sub].filter)
        ended == BagDrop(firings, f)
    IN  /\ BagIn(f, firings) /\ f.pc = "poll"
        /\ UNCHANGED <<data, disk, jobs, adds, max_items, probe>>
        /\ IF rss_items = <<>>
           THEN /\ firings' = ended
                /\ heap' = Collect(heap, data, ended)
           ELSE /\ firings' = BagPut(ended, [f EXCEPT !.pc = "send", !.items = rss_items,
                                                       !.after_ts = 0])
                /\ UNCHANGED heap

\* mutant: sets last_update to max_ts without comparing
AdvancedSubAlways(sub, items) ==
    [sub EXCEPT !.last_update = MaxItemTs(items), !.latest_link = items[1].link]

\* mutant: sets latest_link and leaves last_update as it is
AdvancedSubLinkOnly(sub, items) ==
    [sub EXCEPT !.latest_link = items[1].link]

\* _cron_callback, lines 209-212: the subscription dict after the advance
AdvancedSub(sub, items) ==
    LET max_ts == MaxItemTs(items)
    IN  [sub EXCEPT !.last_update = IF max_ts > sub.last_update THEN max_ts ELSE @,
                    !.latest_link = items[1].link]

SendOutcomes == {"ok", "false", "raise"}

\* the record of the messages the subscribers received, kept while the
\* deliveries are observed: per pair the items delivered, the items delivered
\* a second time, and the number of firings that delivered
NoLog ==
    [op |-> "log",
     sent |-> [p \in Urls \X Users |-> {}],
     again |-> [p \in Urls \X Users |-> {}],
     rounds |-> [p \in Urls \X Users |-> 0]]

\* the record after send_message returned outcome to firing f: the message
\* reached the subscriber when it returned True
Logged(pr, f, outcome) ==
    IF pr.op = "log" /\ outcome = "ok"
    THEN LET p == <<f.url, f.user>>
             items == { f.items[i] : i \in 1..Len(f.items) }
         IN  [pr EXCEPT !.sent[p] = @ \cup items,
                        !.again[p] = @ \cup (items \cap pr.sent[p]),
                        !.rounds[p] = IF @ < MaxTs THEN @ + 1 ELSE @]
    ELSE pr


\* mutant: a callback that advances and saves only when send_message
\* returned True
CronSentChecked(f, outcome) ==
    LET ended == BagDrop(firings, f)
    IN  /\ BagIn(f, firings) /\ f.pc = "send"
        /\ firings' = ended
        /\ UNCHANGED <<data, jobs, adds, max_items>>
        /\ probe' = Logged(probe, f, outcome)
        /\ IF outcome # "ok"
           THEN /\ heap' = Collect(heap, data, ended)
                /\ UNCHANGED disk
           ELSE LET h1 == [heap EXCEPT ![f.sub] = AdvancedSub(@, f.items)]
                IN  /\ heap' = Collect(h1, data, ended)
                    /\ disk' = SaveData(data, heap')


\* mutant: an exception of send_message ends every firing in progress
CronSentRaiseStopsAll(f, outcome) ==
    LET ended == BagDrop(firings, f)
    IN  /\ BagIn(f, firings) /\ f.pc = "send"
        /\ UNCHANGED <<data, jobs, adds, max_items>>
        /\ probe' = Logged(probe, f, outcome)
        /\ IF outcome = "raise"
           THEN /\ firings' = EmptyBag
                /\ heap' = Collect(heap, data, EmptyBag)
                /\ UNCHANGED disk
           ELSE LET h1 == [heap EXCEPT ![f.sub] = AdvancedSub(@, f.items)]
                IN  /\ firings' = ended
                    /\ heap' = Collect(h1, data, ended)
                    /\ disk' = SaveData(data, heap')

\* _cron_callback, lines 207-214: from the return of send_message on
\* (True, False, or an exception that ends the callback)
CronSent(f, outcome) ==
    LET ended == BagDrop(firings, f)
    IN  /\ BagIn(f, firings) /\ f.pc = "send"
        /\ firings' = ended
        /\ UNCHANGED <<data, jobs, adds, max_items>>
        /\ probe' = Logged(probe, f, outcome)
        /\ IF outcome = "raise"
           THEN /\ heap' = Collect(heap, data, ended)
                /\ UNCHANGED disk
           ELSE LET h1 == [heap EXCEPT ![f.sub] = AdvancedSub(@, f.items)]
                IN  /\ heap' = Collect(h1, data, ended)
                    /\ disk' = SaveData(data, heap')

\* ==================== the system ====================

\* a cron expression of 3 fields, as DATA_FILE may hold it
CronStored3 == <<"*", " ", "*", " ", "*">>

\* what _load_data can return: no data, or a Store written by other means
\* in which the subscription of "a" to "u1" has a cron expression of 3 fields
LoadedData ==
    { [data |-> <<>>, heap |-> [o \in ObjIds |-> Free]],
      [data |-> << [url |-> "u1",
                    info |-> [title |-> "chan", description |-> "desc"],
                    subscribers |-> [NoSubs EXCEPT !["a"] = 1]] >>,
       heap |-> [o \in ObjIds |->
                   IF o = 1 THEN [cron_expr |-> CronStored3, filter |-> <<>>,
                                  last_update |-> 2, latest_link |-> <<>>]
                   ELSE Free]] }

\* __init__ and initialize: the Store is loaded, the jobs are refreshed
Init ==
    /\ \E loaded \in LoadedData :
          /\ data = loaded.data
          /\ heap = loaded.heap
          /\ disk = Resolve(loaded.data, loaded.heap)
          /\ jobs = RefreshJobs(loaded.data, loaded.heap)
    /\ adds = EmptyBag
    /\ firings = EmptyBag
    /\ max_items \in SysCaps
    /\ probe = NoProbe

Next ==
    \/ \E req \in AddRequests, rules \in AddRules :
          AddSub(req[1], req[2], rules[1], rules[2])
    \/ \E a \in BagToSet(adds), feed \in SysFetches, now \in NowTimes :
          AddFetched(a, feed, now)
    \/ \E user \in Users, idx \in -1..Cardinality(Urls) : RemoveSub(user, idx)
    \/ \E user \in Users, idx \in -1..Cardinality(Urls) : GetLatest(user, idx)
    \/ \E url \in Urls, user \in Users : Trigger(url, user)
    \/ \E f \in BagToSet(firings) : CronCallback(f)
    \/ \E f \in BagToSet(firings), feed \in SysFetches : CronPolled(f, feed)
    \/ \E f \in BagToSet(firings), outcome \in SendOutcomes : CronSent(f, outcome)

Spec == Init /\ [][Next]_vars

\* ==================== functions applied on their own ====================

\* the entries of the feeds polled on their own: dated by published_parsed,
\* dated by updated_parsed alone, or undated

\* ==================== the scheduler on a Store of two subscriptions ====================

CronStored == <<"0", " ", "1", "8", " ", "*", " ", "*", " ", "*">>

\* the two subscriptions _load_data finds: two subscribers of one feed, or
\* one subscriber of two feeds
LoadedPairs == { <<<<"u1", "a">>, <<"u1", "b">>>>, <<<<"u1", "a">>, <<"u2", "a">>>> }

\* the filters stored with the second subscription: one that compiles and
\* one that does not
LoadedFilters == {FilterAd, FilterBad}

\* the Store with the subscriptions of ps, the second with filter flt
LoadedTwo(ps, flt) ==
    LET chan(url, subs) ==
            [url |-> url, info |-> [title |-> "chan", description |-> "desc"],
             subscribers |-> subs]
    IN  [data |-> IF ps[1][1] = ps[2][1]
                  THEN << chan(ps[1][1], [NoSubs EXCEPT ![ps[1][2]] = 1, ![ps[2][2]] = 2]) >>
                  ELSE << chan(ps[1][1], [NoSubs EXCEPT ![ps[1][2]] = 1]),
                          chan(ps[2][1], [NoSubs EXCEPT ![ps[2][2]] = 2]) >>,
         heap |-> [o \in ObjIds |->
                     IF o \in {1, 2}
                     THEN [cron_expr |-> CronStored,
                           filter |-> IF o = 1 THEN <<>> ELSE flt,
                           last_update |-> 2, latest_link |-> <<>>]
                     ELSE Free]]

\* __init__ and initialize with two subscriptions in DATA_FILE
InitFirings ==
    /\ \E ps \in LoadedPairs, flt \in LoadedFilters :
          /\ data = LoadedTwo(ps, flt).data
          /\ heap = LoadedTwo(ps, flt).heap
          /\ disk = Resolve(data, heap)
          /\ jobs = RefreshJobs(data, heap)
    /\ adds = EmptyBag
    /\ firings = EmptyBag
    /\ max_items \in SysCaps
    /\ probe = NoProbe

\* the scheduler at work while no command comes in
NextFirings ==
    \/ \E url \in Urls, user \in Users : Due(url, user)
    \/ \E f \in BagToSet(firings) : CronCallback(f)
    \/ \E f \in BagToSet(firings), feed \in SysFetches : CronPolled(f, feed)
    \/ \E f \in BagToSet(firings), outcome \in SendOutcomes : CronSent(f, outcome)

SpecFirings == InitFirings /\ [][NextFirings]_vars

\* ==================== the scheduler with the deliveries observed ====================

\* as InitFirings, with the record of deliveries empty
InitLog ==
    /\ \E ps \in LoadedPairs, flt \in LoadedFilters :
          /\ data = LoadedTwo(ps, flt).data
          /\ heap = LoadedTwo(ps, flt).heap
          /\ disk = Resolve(data, heap)
          /\ jobs = RefreshJobs(data, heap)
    /\ adds = EmptyBag
    /\ firings = EmptyBag
    /\ max_items \in SysCaps
    /\ probe = NoLog

\* a subscriber edits the rules of a subscription while no firing is in
\* progress
EditBetween ==
    /\ firings = EmptyBag
    /\ \E req \in AddRequests, rules \in AddRules :
          /\ SubRef(data, req[2], req[1]) # 0
          /\ AddSub(req[1], req[2], rules[1], rules[2])

\* the firings of each subscription one after the other (no command comes
\* in while a firing is in progress, so no job is replaced under it), the
\* subscriptions staying in the Store
NextLog ==
    \/ NextFirings
    \/ EditBetween

SpecLog == InitLog /\ [][NextLog]_vars

PollEntries ==
    { MkEntry(TNews, IF p = NoTime THEN 9 ELSE p.secs, p, NoTime) : p \in ParsedTimes }
        \cup { MkEntry(TNews, 8, NoTime, [secs |-> MaxTs]) }

\* sequences over S of length at most n
RECURSIVE SeqsUpTo(_, _)
SeqsUpTo(S, n) ==
    IF n = 0 THEN {<<>>}
    ELSE LET shorter == SeqsUpTo(S, n - 1)
         IN  shorter \cup { Append(q, e) : q \in { x \in shorter : Len(x) = n - 1 }, e \in S }

PollFeeds == { MkFeed(es, FALSE) : es \in SeqsUpTo(PollEntries, MaxEntries) } \cup {NoFeed}

InitSystem ==
    /\ data = <<>>
    /\ heap = [o \in ObjIds |-> Free]
    /\ disk = <<>>
    /\ jobs = EmptyBag
    /\ adds = EmptyBag
    /\ firings = EmptyBag
    /\ max_items \in SysCaps

\* the item lists and patterns _filter_items is applied to on its own
FilterLists == SeqsUpTo({ParseEntry(E1), ParseEntry(E3), ParseEntry(E4)}, MaxEntries)
FilterNews == <<"n", "e", "w", "s">>
FilterPatterns == {<<>>, FilterAd, FilterNews, FilterBad}

InitPure ==
    /\ InitSystem
    /\ \/ \E url \in FormatterUrls :
             probe = [op |-> "resolve", done |-> FALSE, url |-> url, out |-> ""]
       \/ \E items \in FilterLists, pattern \in FilterPatterns :
             probe = [op |-> "filter", done |-> FALSE, items |-> items,
                      pattern |-> pattern, out |-> <<>>, again |-> <<>>]
       \/ \E feed \in PollFeeds, limit \in 0..MaxCap :
             \/ \E ts \in 0..MaxTs :
                   probe = [op |-> "poll", done |-> FALSE, feed |-> feed, limit |-> limit,
                            ts |-> ts, wm |-> 0, out |-> <<>>]
             \/ /\ feed # NoFeed
                /\ probe = [op |-> "seed", done |-> FALSE, feed |-> feed, limit |-> limit,
                             ts |-> MaxTs + 1, wm |-> 0, out |-> <<>>]

\* _poll_rss(url, max_items=limit, after_ts=ts) on a fetched feed
PollApply ==
    /\ probe.op = "poll" /\ ~probe.done
    /\ probe' = [probe EXCEPT !.done = TRUE,
                               !.out = PollRss(probe.feed, probe.limit, probe.ts)]
    /\ UNCHANGED <<data, heap, disk, jobs, adds, firings, max_items>>

\* add_sub seeding the watermark from a feed at time ts (later than every
\* entry's date), then the next firing polling the same feed with it
SeedApply ==
    /\ probe.op = "seed" /\ ~probe.done
    /\ LET wm == SeedWatermark(probe.feed, probe.ts).latest_ts
       IN  probe' = [probe EXCEPT !.done = TRUE, !.wm = wm,
                                  !.out = PollRss(probe.feed, probe.limit, wm)]
    /\ UNCHANGED <<data, heap, disk, jobs, adds, firings, max_items>>

\* _filter_items applied to a list, and again to what it returned
FilterApply ==
    /\ probe.op = "filter" /\ ~probe.done
    /\ LET out == FilterItems(probe.items, probe.pattern)
       IN  probe' = [probe EXCEPT !.done = TRUE, !.out = out,
                                  !.again = FilterItems(out, probe.pattern)]
    /\ UNCHANGED <<data, heap, disk, jobs, adds, firings, max_items>>

\* get_formatter(url)
GetFormatterApply ==
    /\ probe.op = "resolve" /\ ~probe.done
    /\ probe' = [probe EXCEPT !.done = TRUE, !.out = GetFormatter(probe.url)]
    /\ UNCHANGED <<data, heap, disk, jobs, adds, firings, max_items>>

NextPure == PollApply \/ SeedApply \/ FilterApply \/ GetFormatterApply

SpecPure == InitPure /\ [][NextPure]_vars

\* ==================== properties of _poll_rss and of the seeding ====================

PollDone == probe.op = "poll" /\ probe.done
SeedDone == probe.op = "seed" /\ probe.done

Undated(entry) == OrTime(entry.published_parsed, entry.updated_parsed) = NoTime

\* the timestamps of the dated entries of a feed
DatedTs(feed) ==
    { Mktime(OrTime(feed.entries[i].published_parsed, feed.entries[i].updated_parsed)) :
        i \in { j \in 1..Len(feed.entries) : ~Undated(feed.entries[j]) } }

\* C2: an add that creates a subscription seeds the watermark with the
\* latest publish timestamp of the feed's dated entries, whatever their
\* order, and the next poll of the same feed then returns nothing.
SeedIsLatestAndQuiet ==
    (SeedDone /\ probe.limit >= 1) =>
        /\ DatedTs(probe.feed) # {} =>
              /\ probe.wm \in DatedTs(probe.feed)
              /\ \A ts \in DatedTs(probe.feed) : ts <= probe.wm
        /\ probe.out = <<>>

\* C3: a poll returns no item whose publish timestamp is <= the watermark.
StrictNovelty ==
    PollDone =>
        \A i \in 1..Len(probe.out) : probe.out[i].pub_date_timestamp > probe.ts

\* C3 witness: an entry dated exactly at the watermark was in the feed, and
\* the poll returned something
StrictNoveltyWitness ==
    /\ PollDone /\ probe.feed # NoFeed /\ probe.out # <<>>
    /\ \E i \in 1..Len(probe.feed.entries) :
          ~Undated(probe.feed.entries[i])
              /\ ParseEntry(probe.feed.entries[i]).pub_date_timestamp = probe.ts

\* C4: a poll returns at most max_items items, for every max_items >= 0.
CapRespected ==
    PollDone => Len(probe.out) <= probe.limit

\* C5 as claimed: an undated entry gets timestamp 0, is never returned under
\* a watermark > 0, and is returned (the cap allowing) under watermark 0.
UndatedSurfacedAtZero ==
    (PollDone /\ probe.feed # NoFeed) =>
        /\ \A i \in 1..Len(probe.feed.entries) :
              Undated(probe.feed.entries[i]) =>
                  ParseEntry(probe.feed.entries[i]).pub_date_timestamp = 0
        /\ probe.ts > 0 =>
              \A i \in 1..Len(probe.out) : probe.out[i].pub_date # <<>>
        /\ ( /\ probe.ts = 0
             /\ probe.limit > Len(probe.feed.entries)
             /\ \E i \in 1..Len(probe.feed.entries) : Undated(probe.feed.entries[i]) )
              => \E i \in 1..Len(probe.out) : probe.out[i].pub_date = <<>>

\* C5 as amended: an undated entry gets timestamp 0 and is returned by no
\* poll whose watermark is >= 0, the zero-watermark pull of get included.
UndatedNeverSurfaced ==
    (PollDone /\ probe.feed # NoFeed) =>
        /\ \A i \in 1..Len(probe.feed.entries) :
              Undated(probe.feed.entries[i]) =>
                  ParseEntry(probe.feed.entries[i]).pub_date_timestamp = 0
        /\ probe.ts >= 0 =>
              \A i \in 1..Len(probe.out) : probe.out[i].pub_date # <<>>

\* C5 witness: a zero-watermark poll of a feed with an undated and a dated
\* entry, under a cap larger than the feed, returned the dated one only
UndatedNeverSurfacedWitness ==
    /\ PollDone /\ probe.feed # NoFeed /\ probe.ts = 0
    /\ probe.limit > Len(probe.feed.entries)
    /\ \E i \in 1..Len(probe.feed.entries) : Undated(probe.feed.entries[i])
    /\ Len(probe.out) = 1 /\ Len(probe.feed.entries) = 2

\* ==================== properties of the system ====================

Pairs == Urls \X Users

\* the subscription dict of a pair of the Store
SubOf(d, h, p) == h[SubRef(d, p[1], p[2])]

Max2(a, b) == IF a >= b THEN a ELSE b

\* send_message returned to firing f, which goes on to advance and save
SendReturned(f) == CronSent(f, "ok") \/ CronSent(f, "false")

\* C1: during the life of a subscription (its dict stays in the Store under
\* its feed and subscriber), no step of a firing, an edit, a get or a
\* refresh lowers its watermark.
WatermarkMonotone ==
    [][ \A p \in Pairs :
          (SubRef(data, p[1], p[2]) # 0 /\ SubRef(data', p[1], p[2]) = SubRef(data, p[1], p[2])) =>
              SubOf(data', heap', p).last_update >= SubOf(data, heap, p).last_update ]_vars

\* C1 witness: a firing is about to return from a delivery whose newest item
\* is older than the watermark its subscription has reached meanwhile, and
\* the subscription has had its rules edited
WatermarkMonotoneWitness ==
    \E f \in BagToSet(firings) :
        /\ f.pc = "send"
        /\ SubRef(data, f.url, f.user) = f.sub
        /\ MaxItemTs(f.items) < heap[f.sub].last_update
        /\ heap[f.sub].filter = FilterAd

\* C6: when a firing has delivered its items, the subscription's watermark
\* is the maximum timestamp delivered and not lower than before, lastLink
\* is the first delivered item's link, and the Store is persisted.
AdvanceOnDelivery ==
    [][ \A f \in BagToSet(firings) :
          (SendReturned(f) /\ SubRef(data, f.url, f.user) = f.sub) =>
              /\ heap'[f.sub].last_update = MaxItemTs(f.items)
              /\ heap'[f.sub].last_update >= heap[f.sub].last_update
              /\ heap'[f.sub].latest_link = f.items[1].link
              /\ disk' = Resolve(data', heap') ]_vars

\* C7: a firing that ends with an empty item list hands nothing to
\* send_message and leaves the Store, the saved data and the jobs as they are.
EmptyCycleNoOp ==
    [][ /\ \A f \in BagToSet(firings) :
              (f.pc = "poll" /\ firings' = BagDrop(firings, f)) =>
                  /\ data' = data /\ disk' = disk /\ jobs' = jobs
                  /\ Resolve(data', heap') = Resolve(data, heap)
        /\ \A g \in BagToSet(firings') : g.pc = "send" => g.items # <<>> ]_vars

\* C7 witness: a firing is polling for a subscription that filters "ad" with
\* watermark 2, for which a feed whose only newer item is an ad ends empty
EmptyCycleNoOpWitness ==
    \E f \in BagToSet(firings) :
        /\ f.pc = "poll" /\ f.after_ts = 2
        /\ SubRef(data, f.url, f.user) = f.sub
        /\ heap[f.sub].filter = FilterAd
        /\ FilterItems(PollRss(MkFeed(<<EUndated, E3>>, FALSE), max_items, f.after_ts),
                       heap[f.sub].filter) = <<>>
        /\ PollRss(MkFeed(<<EUndated, E3>>, FALSE), max_items, f.after_ts) # <<>>

\* firings of a pair that are executing _cron_callback
Running(url, user) ==
    { f \in Firings(url, user) : f.pc \in {"poll", "send"} }

\* C8: at most one _cron_callback per (feed, subscriber) is in progress.
OneFiringPerPair ==
    \A p \in Pairs :
        \A f \in Running(p[1], p[2]) :
            /\ CopiesIn(f, firings) = 1
            /\ \A g \in Running(p[1], p[2]) : g = f

\* C9: a firing's advance-and-persist changes no key of the Store, touches
\* no dict but its own, keeps the rules edited meanwhile, leaves the
\* watermark at the larger of its current value and the delivered maximum,
\* and saves exactly the Store: a removed entry is not written back.
AdvanceAtomic ==
    [][ \A f \in BagToSet(firings) :
          SendReturned(f) =>
              /\ data' = data
              /\ disk' = Resolve(data', heap')
              /\ \A p \in Pairs :
                    LET r == SubRef(data, p[1], p[2])
                    IN  /\ (r # 0 /\ r # f.sub) => heap'[r] = heap[r]
                        /\ (r # 0 /\ r = f.sub) =>
                              /\ heap'[r].cron_expr = heap[r].cron_expr
                              /\ heap'[r].filter = heap[r].filter
                              /\ heap'[r].last_update =
                                    Max2(heap[r].last_update, MaxItemTs(f.items))
              /\ \A i \in 1..Len(disk') : \A u \in Users :
                    (SubRef(data, disk'[i].url, u) = 0) => disk'[i].subscribers[u] = Free ]_vars

\* C9 witness: a firing is in its delivery while its subscription has been
\* removed and added again
AdvanceAtomicWitness ==
    \E f \in BagToSet(firings) :
        /\ f.pc = "send"
        /\ SubRef(data, f.url, f.user) # 0
        /\ SubRef(data, f.url, f.user) # f.sub

\* C10: removing the only subscriber of a feed removes the feed's channel,
\* and no channel of the Store has an empty subscriber map.
ChannelLifecycle ==
    [][ /\ \A p \in Pairs :
              ( /\ SubRef(data, p[1], p[2]) # 0
                /\ \A v \in Users \ {p[2]} : SubRef(data, p[1], v) = 0
                /\ SubRef(data', p[1], p[2]) = 0 ) => ChanIdx(data', p[1]) = 0
        /\ \A i \in 1..Len(data') : data'[i].subscribers # NoSubs
        /\ \A i \in 1..Len(disk') : \E u \in Users : disk'[i].subscribers[u] # Free ]_vars

\* C10 witness: a firing still holds the dict of a subscription whose
\* channel has left the Store, while another channel is there
ChannelLifecycleWitness ==
    /\ Len(data) = 1
    /\ \E f \in BagToSet(firings) : f.sub # 0 /\ ChanIdx(data, f.url) = 0

\* ==================== cron validation and the job set ====================

\* the job of a pair
JobOf(p) == [url |-> p[1], user |-> p[2]]

\* a stored cron expression that does not have 5 fields
WrongFieldCount(cron_expr) == Len(SplitWs(cron_expr)) # 5

\* the add commands issued whose cron argument does not have 5 fields
WrongCountAdds ==
    { c \in AddRequests \X AddRules :
        c[2][1] # <<>> /\ Len(SplitDot(c[2][1])) # 5 }

\* an add command with these arguments changes the Store, the saved data,
\* the jobs or the pending adds
AddChanges(user, url, cron, filter_re) ==
    /\ AddSub(user, url, cron, filter_re)
    /\ <<data, heap, disk, jobs, adds>>' # <<data, heap, disk, jobs, adds>>

\* C11: an add whose cron expression does not have 5 fields replies with the
\* cron error and creates nothing; a subscription of the Store whose
\* expression does not have 5 fields has no job, and every subscription with
\* a valid expression has one.
InvalidCronHandled ==
    /\ \A p \in Pairs :
          SubRef(data, p[1], p[2]) # 0 =>
              /\ WrongFieldCount(SubOf(data, heap, p).cron_expr) => ~BagIn(JobOf(p), jobs)
              /\ ValidateCron(SubOf(data, heap, p).cron_expr) => BagIn(JobOf(p), jobs)
    /\ \A c \in WrongCountAdds :
          /\ AddSubReply(c[1][1], c[1][2], c[2][1], c[2][2]) = "cron_invalid"
          /\ ~ENABLED AddChanges(c[1][1], c[1][2], c[2][1], c[2][2])

\* C11 witness: the Store holds a subscription with a 3-field expression and
\* no job, next to a subscription with a valid expression and its job
InvalidCronHandledWitness ==
    \E p, q \in Pairs :
        /\ SubRef(data, p[1], p[2]) # 0 /\ SubRef(data, q[1], q[2]) # 0
        /\ WrongFieldCount(SubOf(data, heap, p).cron_expr)
        /\ ~BagIn(JobOf(p), jobs)
        /\ ValidateCron(SubOf(data, heap, q).cron_expr)
        /\ BagIn(JobOf(q), jobs)

\* ==================== get ====================

\* the indices the get and remove commands are issued with
Indices == -1..Cardinality(Urls)

\* a get command with these arguments changes something
GetChanges(user, idx) ==
    GetLatest(user, idx) /\ vars' # vars

\* C12: a get, whatever its index, leaves every subscription, the channel
\* map, the saved data and the jobs as they are.
GetTouchesNothing ==
    \A user \in Users, idx \in Indices : ~ENABLED GetChanges(user, idx)

\* C12 witness: a subscriber's first subscription stands at watermark 4 with
\* lastLink L4, and a get of it would reply with items dated at or before it
GetTouchesNothingWitness ==
    \E user \in Users :
        /\ GetUserSubs(data, user) # <<>>
        /\ heap[SubRef(data, GetUserSubs(data, user)[1], user)].last_update = 4
        /\ heap[SubRef(data, GetUserSubs(data, user)[1], user)].latest_link = <<"L", 4>>
        /\ GetLatestReply(user, 0, MkFeed(<<E4, E3, E1>>, FALSE)).kind = "items"

\* ==================== _filter_items on its own ====================

FilterDone == probe.op = "filter" /\ probe.done

\* C13: filtering what a filter returned, with the same pattern, returns it
\* unchanged, for an empty, a valid and an invalid pattern.
FilterIdempotent ==
    FilterDone => probe.again = probe.out

\* C13 witness: a valid pattern excluded two of three items
FilterIdempotentWitness ==
    /\ FilterDone /\ ReCompiles(probe.pattern)
    /\ Len(probe.items) = 3 /\ Len(probe.out) = 1

\* ==================== get_formatter on its own ====================

ResolveDone == probe.op = "resolve" /\ probe.done

\* the text after the last "@" of s
RECURSIVE AfterLastAt(_)
AfterLastAt(s) ==
    IF \A i \in 1..Len(s) : s[i] # "@" THEN s
    ELSE AfterLastAt(Tail(s))

\* the host component of a URL: its netloc without user information and
\* port, in lower case
HostOf(url) == LowerText(UpTo(AfterLastAt(Netloc(url)), 1, {":"}))

\* the keys whose strategy the host selects: the host equals the key or ends
\* with "." and the key
KeysOfHost(host) ==
    { i \in 1..Len(FORMATTERS) :
        host = FORMATTERS[i].key \/ EndsWith(host, <<".">> \o FORMATTERS[i].key) }

\* C14: get_formatter returns the strategy of key k exactly when the URL's
\* host equals k or ends with "." and k, and the default strategy otherwise.
StrategyByHost ==
    ResolveDone =>
        /\ \A i \in KeysOfHost(HostOf(probe.url)) : probe.out = FORMATTERS[i].cls
        /\ KeysOfHost(HostOf(probe.url)) = {} => probe.out = "DefaultFormatter"


\* ==================== the scheduler's jobs ====================

\* the pairs that have a subscription in the Store
Subscribed == { p \in Pairs : SubRef(data, p[1], p[2]) # 0 }

\* C15: the scheduler holds exactly one job for every subscription of the
\* Store whose cron expression is valid, no job for any other pair and no job
\* twice, and a further refresh of the unchanged Store gives the same jobs.
JobsMirrorStore ==
    /\ \A p \in Pairs :
          CopiesIn(JobOf(p), jobs) =
              IF p \in Subscribed /\ ValidateCron(SubOf(data, heap, p).cron_expr)
              THEN 1 ELSE 0
    /\ BagToSet(jobs) \subseteq { JobOf(p) : p \in Pairs }
    /\ RefreshJobs(data, heap) = jobs

\* two subscriptions in the Store, one of them with a cron expression that
\* does not validate: one job
JobsMirrorStoreWitness ==
    /\ Cardinality(Subscribed) = 2
    /\ \E p \in Subscribed : ~ValidateCron(SubOf(data, heap, p).cron_expr)
    /\ BagCardinality(jobs) = 1


\* ==================== firings and removal ====================

\* the Store as json.dump would write it now
StoreNow == Resolve(data, heap)

\* firing f takes its next step before the delivery and does more than end
\* in silence: it hands a message to send_message, or the Store or the
\* persisted data change
ActsBeforeDelivery(f) ==
    /\ \/ CronCallback(f)
       \/ \E feed \in SysFetches : CronPolled(f, feed)
    /\ \/ \E g \in BagToSet(firings') : g.pc = "send" /\ ~BagIn(g, firings)
       \/ Resolve(data', heap') # StoreNow
       \/ disk' # disk

\* the firings that have not reached the delivery and whose subscription is
\* no longer in the Store
FiringsOfRemoved ==
    { f \in BagToSet(firings) :
        f.pc \in {"start", "poll"} /\ SubRef(data, f.url, f.user) = 0 }

\* C16: a firing whose subscription was removed from the Store before the
\* firing reaches its delivery step, before it started or while it was
\* suspended in the poll, delivers no message and changes neither the Store
\* nor the persisted data.
RemovedFiringSilent ==
    \A f \in FiringsOfRemoved : ~ENABLED ActsBeforeDelivery(f)


\* ==================== a delivery that fails ====================

\* the firings suspended in send_message whose subscription is in the Store
Delivering ==
    { f \in BagToSet(firings) :
        f.pc = "send" /\ SubRef(data, f.url, f.user) = f.sub }

\* the ways send_message reports a failure: it returns False, or it raises
SendFailures == SendOutcomes \ {"ok"}

\* after the failed delivery the watermark is the maximum timestamp of the
\* message's items and the Store is persisted
AdvancedToMax(f) ==
    /\ heap'[f.sub].last_update = MaxItemTs(f.items)
    /\ disk' = Resolve(data', heap')

AdvancedPastItems(f) ==
    /\ heap'[f.sub].last_update = Max2(heap[f.sub].last_update, MaxItemTs(f.items))
    /\ \A i \in 1..Len(f.items) :
          f.items[i].pub_date_timestamp <= heap'[f.sub].last_update
    /\ disk' = Resolve(data', heap')

\* after a delivery that raised: the subscription and the persisted data are
\* as before
LeftForRetry(f) ==
    /\ heap'[f.sub] = heap[f.sub]
    /\ disk' = disk
    /\ data' = data

OtherThanDelivery ==
    \/ \E req \in AddRequests, rules \in AddRules :
          AddSub(req[1], req[2], rules[1], rules[2])
    \/ \E a \in BagToSet(adds), feed \in SysFetches, now \in NowTimes :
          AddFetched(a, feed, now)
    \/ \E user \in Users, idx \in Indices : RemoveSub(user, idx)
    \/ \E user \in Users, idx \in Indices : GetLatest(user, idx)
    \/ \E url \in Urls, user \in Users : Trigger(url, user)
    \/ \E f \in BagToSet(firings) : CronCallback(f)
    \/ \E f \in BagToSet(firings), feed \in SysFetches : CronPolled(f, feed)

\* the subscription of pair p is in the Store before and after the step and
\* its watermark or its link differ
MarkChanges(p) ==
    /\ SubRef(data', p[1], p[2]) # 0
    /\ \/ SubOf(data', heap', p).last_update # SubOf(data, heap, p).last_update
       \/ SubOf(data', heap', p).latest_link # SubOf(data, heap, p).latest_link

\* an add command of pair p runs its synchronous part (lines 242-277) and
\* changes more than the rules of p's subscription
EditChangesMore(p) ==
    /\ \E rules \in AddRules : AddSub(p[2], p[1], rules[1], rules[2])
    /\ \/ data' # data
       \/ MarkChanges(p)
       \/ \E q \in Subscribed \ {p} : SubOf(data', heap', q) # SubOf(data, heap, q)

\* C18: an add for a pair that is in the Store changes at most the cron
\* expression and the filter of that subscription (watermark, link, channel
\* entries and the other subscriptions stay), and no operation other than a
\* delivering firing changes the watermark or the link of a subscription.
ReAddEditsRulesOnly ==
    \A p \in Subscribed :
        /\ ~ENABLED EditChangesMore(p)
        /\ ~ENABLED (OtherThanDelivery /\ MarkChanges(p))


\* ==================== one firing and the other pairs ====================

\* the next step of firing f, whatever the fetch and the delivery do
FiringStep(f) ==
    \/ CronCallback(f)
    \/ \E feed \in SysFetches : CronPolled(f, feed)
    \/ \E outcome \in SendOutcomes : CronSent(f, outcome)

\* the subscription of pair q as DATA_FILE holds it
DiskSub(dk, q) == dk[ChanIdx(dk, q[1])].subscribers[q[2]]

\* the step changes something that is not firing f's own subscription:
\* another subscription (in the Store or in the file), a channel entry, a
\* job, or a firing of another pair
Disturbs(f) ==
    \/ data' # data
    \/ jobs' # jobs
    \/ \E q \in Subscribed \ {<<f.url, f.user>>} :
          \/ SubOf(data', heap', q) # SubOf(data, heap, q)
          \/ DiskSub(disk', q) # DiskSub(disk, q)
    \/ \E g \in BagToSet(firings) :
          <<g.url, g.user>> # <<f.url, f.user>> /\ CopiesIn(g, firings') # CopiesIn(g, firings)

\* C19: a step of a firing, whether it delivers, finds nothing or fails,
\* leaves every other subscription, every channel entry, every job and the
\* firings of the other pairs as they are, and every firing in progress can
\* take its next step.
FiringIsolated ==
    \A f \in BagToSet(firings) :
        /\ ~ENABLED (FiringStep(f) /\ Disturbs(f))
        /\ ENABLED FiringStep(f)

\* firings of two pairs wait for send_message, and one of them can fail
FiringIsolatedWitness ==
    \E f, g \in BagToSet(firings) :
        /\ <<g.url, g.user>> # <<f.url, f.user>>
        /\ f.pc = "send" /\ g.pc = "send"
        /\ ENABLED CronSent(f, "raise")


\* ==================== an add that is rejected ====================

\* the add commands of a pair that is not in the Store which are rejected
\* before the fetch: the cron argument or the filter is invalid
RejectedAdds ==
    { c \in AddRequests \X AddRules :
        /\ SubRef(data, c[1][2], c[1][1]) = 0
        /\ AddSubReply(c[1][1], c[1][2], c[2][1], c[2][2])
               \in {"cron_invalid", "filter_invalid"} }

\* what _fetch_feed returns to an add that is then rejected: None, or a
\* feed with bozo set and no entries
RejectedFetches ==
    { feed \in SysFetches : AddFetchedReply(feed) \in {"unreachable", "not_a_feed"} }

\* the adds of a pair that is not in the Store which wait for _fetch_feed
NewPairAdds == { a \in BagToSet(adds) : SubRef(data, a.url, a.user) = 0 }

\* the add coroutine a resumes with feed and leaves a trace: the Store, the
\* file, the jobs or a firing differ
FetchedAddChanges(a, feed) ==
    /\ \E now \in NowTimes : AddFetched(a, feed, now)
    /\ <<data, heap, disk, jobs, firings>>' # <<data, heap, disk, jobs, firings>>

\* C20: an add of a new pair that is rejected (cron or filter invalid, feed
\* unreachable, or not a feed: bozo with no entries) creates no subscription
\* and no channel entry and leaves the Store, the file and the jobs as they
\* were.
RejectedAddNoEffect ==
    /\ \A c \in RejectedAdds :
          ~ENABLED AddChanges(c[1][1], c[1][2], c[2][1], c[2][2])
    /\ \A a \in NewPairAdds : \A feed \in RejectedFetches :
          ~ENABLED FetchedAddChanges(a, feed)

\* the Store holds a subscription with its job, and an add of another pair
\* waits for a fetch that can fail both ways
RejectedAddNoEffectWitness ==
    /\ Subscribed # {}
    /\ jobs # EmptyBag
    /\ \E a \in NewPairAdds :
          /\ ENABLED (\E now \in NowTimes : AddFetched(a, NoFeed, now))
          /\ ENABLED (\E now \in NowTimes : AddFetched(a, MkFeed(<<>>, TRUE), now))
    /\ RejectedAdds # {}


\* ==================== deliveries over the life of a subscription ====================

\* C21: while a subscription stays in the Store and its firings do not
\* overlap, no item that a firing delivered to the subscriber is delivered
\* to that subscriber again by a later firing.
NoRedelivery ==
    probe.op = "log" => \A p \in Pairs : probe.again[p] = {}

\* two firings of one subscription have delivered, two items in all: the
\* later firing left out what the earlier one had delivered
NoRedeliveryWitness ==
    /\ probe.op = "log"
    /\ \E p \in Pairs :
          /\ probe.rounds[p] = 2
          /\ Cardinality(probe.sent[p]) = 2
          /\ SubOf(data, heap, p).last_update = MaxTs


\* ==================== remove and its index ====================

\* the index is outside the caller's list
InvalidIndex(user, idx) == idx < 0 \/ idx >= Len(GetUserSubs(data, user))

\* pair q keeps its subscription dict, with its content, and its job
PairKept(q) ==
    /\ SubRef(data', q[1], q[2]) = SubRef(data, q[1], q[2])
    /\ SubRef(data, q[1], q[2]) # 0 => SubOf(data', heap', q) = SubOf(data, heap, q)
    /\ CopiesIn(JobOf(q), jobs') = CopiesIn(JobOf(q), jobs)

\* the step deleted the subscription of the caller to the feed at that
\* index of the caller's list, and nothing of any other pair
RemovedOwnOnly(user, idx) ==
    LET url == GetUserSubs(data, user)[idx + 1]
    IN  /\ SubRef(data', url, user) = 0
        /\ \A q \in Pairs \ {<<url, user>>} : PairKept(q)

\* C22: a remove with an index below 0 or not below the number of the
\* caller's subscriptions changes nothing; a remove with a valid index
\* deletes the caller's subscription at that index and no other
\* subscription, in particular not another subscriber's to the same feed.
RemoveByIndexOnly ==
    [][ \A user \in Users : \A idx \in Indices :
          RemoveSub(user, idx) =>
              IF InvalidIndex(user, idx) THEN vars' = vars
              ELSE RemovedOwnOnly(user, idx) ]_vars

\* "a" and "b" subscribe to the same feed: a remove of index 0 by "a" takes
\* a's subscription and leaves b's, and a remove of index 1 by "a" is refused
RemoveByIndexOnlyWitness ==
    /\ SubRef(data, "u1", "a") # 0 /\ SubRef(data, "u1", "b") # 0
    /\ ENABLED (RemoveSub("a", 0) /\ SubRef(data', "u1", "a") = 0
                                  /\ SubRef(data', "u1", "b") # 0)
    /\ InvalidIndex("a", 1) /\ InvalidIndex("a", -1)

===========================================================================

